---- MODULE Spec2Model ----
(***************************************************************************)
(* Model of the EEVBlog 121GW Bluetooth-LE multimeter driver               *)
(* (src/pymeasure/instruments/eevblog/eevblog121GW.py): the frame          *)
(* reassembler (notification_handler), the packet decoder                  *)
(* (parse_121GW_data) and the polling accessor (reading).                  *)
(*                                                                         *)
(* Conventions.                                                            *)
(*  - A Python bytes/bytearray value is a sequence of naturals in 0..255;   *)
(*    Python's data[i] is At(data, i) (TLA+ sequences start at 1).         *)
(*  - The instance is the record `self`, with the attribute names of the   *)
(*    source.                                                              *)
(*  - A float is the pair <<sig, exp>> standing for sig * 10^exp, in normal *)
(*    form (see Float); binary rounding of the product is not modelled.    *)
(*    An attribute that was never assigned is Unassigned.                  *)
(*  - The strings "°C" and "Ω" of MODE_RANGE_LIST are written "degC" and   *)
(*    "Ohm".                                                               *)
(***************************************************************************)
EXTENDS Integers, Sequences, FiniteSets, TLC

(***************************************************************************)
(* Bounds of the model.                                                    *)
(***************************************************************************)
\* parse_121GW_data calls explored by SpecDecode
MaxCalls == 2
\* stream items the meter sends in SpecStream
MaxSent == 2
\* packets the meter sends in SpecRW
MaxSentRW == 3
\* `reading` calls in SpecRW
MaxReads == 2
\* seconds that may pass between line 155 and line 157 of `reading`
MaxSkew == 1
\* devices in the scan results of connect()
MaxDevices == 2
\* whole packets the meter sends in SpecResync after the one joined mid-way
MaxFrames == 2
\* explicit close() calls in SpecClose
MaxCloses == 2

\* commands written to the Agilent 34970A before the session ends
MaxWrites == 4

(***************************************************************************)
(* Python's integer operators on naturals.                                 *)
(***************************************************************************)
RECURSIVE BitXor(_, _)
BitXor(a, b) ==
    IF a = 0 THEN b
    ELSE IF b = 0 THEN a
    ELSE ((a + b) % 2) + 2 * BitXor(a \div 2, b \div 2)

RECURSIVE BitAnd(_, _)
BitAnd(a, b) ==
    IF a = 0 \/ b = 0 THEN 0
    ELSE ((a % 2) * (b % 2)) + 2 * BitAnd(a \div 2, b \div 2)

RECURSIVE BitOr(_, _)
BitOr(a, b) ==
    IF a = 0 THEN b
    ELSE IF b = 0 THEN a
    ELSE (IF a % 2 = 1 \/ b % 2 = 1 THEN 1 ELSE 0) + 2 * BitOr(a \div 2, b \div 2)

Shl(a, k) == a * (2 ^ k)

Shr(a, k) == a \div (2 ^ k)

At(data, i) == data[i + 1]

(***************************************************************************)
(* Floats.  Float(m, e) is the value m * 10^e as the pair <<sig, exp>> with *)
(* sig not divisible by 10, and <<0, 0>> for zero: two pairs are equal     *)
(* exactly when the values are (0.0, -0.0 and the int 0 compare equal in   *)
(* Python).                                                                *)
(***************************************************************************)
RECURSIVE Float(_, _)
Float(m, e) ==
    IF m = 0 THEN <<0, 0>>
    ELSE IF m % 10 = 0 THEN Float(m \div 10, e + 1)
    ELSE <<m, e>>

Unassigned == <<>>

\* the literal 9.9E37 of line 233, times the sign
OFL(sign) == Float(99 * sign, 36)

\* the literal 0.0 returned by `reading` on timeout (line 163)
TimeoutValue == Float(0, 0)

(***************************************************************************)
(* MODE_RANGE_LIST (lines 111-137): [short, long, exponents] per mode.     *)
(***************************************************************************)
MODE_RANGE_LIST ==
    << <<"V",   "Voltage Low Z (V)", <<-1>> >>,
       <<"V",   "Voltage DC (V)",    <<-4, -3, -2, -1>> >>,
       <<"V",   "Voltage AC (V)",    <<-4, -3, -2, -1>> >>,
       <<"mV",  "Voltage DC (mV)",   <<-6, -5>> >>,
       <<"mV",  "Voltage AC (mV)",   <<-6, -5>> >>,
       <<"degC", "Temp (degC)",      <<-1>> >>,
       <<"Hz",  "Frequency (Hz)",    <<-3, -2, -1, 0, 1>> >>,
       <<"s",   "Period (s)",        <<-4, -3, -2>> >>,
       <<"%",   "Duty (%)",          <<-1>> >>,
       <<"Ohm", "Resistance (Ohm)",  <<-3, -2, -1, 0, 1, 2, 3>> >>,
       <<"Ohm", "Continuity (Ohm)",  <<-2>> >>,
       <<"V",   "Diode (V)",         <<-4, -3>> >>,
       <<"F",   "Capacitance (F)",   <<-12, -11, -10, -9, -8, -6>> >>,
       <<"uVA", "Power AC (uVA)",    <<-8, -7, -7, -6>> >>,
       <<"mVA", "Power AC (mVA)",    <<-6, -5, -5, -4>> >>,
       <<"VA",  "Power AC (VA)",     <<-4, -3, -3, -2>> >>,
       <<"uA",  "Current AC (uA)",   <<-9, -8>> >>,
       <<"uA",  "Current DC (uA)",   <<-9, -8>> >>,
       <<"mA",  "Current AC (mA)",   <<-7, -6>> >>,
       <<"mA",  "Current DC (mA)",   <<-7, -6>> >>,
       <<"A",   "Current AC (A)",    <<-5, -4, -3>> >>,
       <<"A",   "Current DC (A)",    <<-5, -4, -3>> >>,
       <<"uVA", "Power DC (uVA)",    <<-8, -7, -7, -6>> >>,
       <<"mVA", "Power DC (mVA)",    <<-6, -5, -5, -4>> >>,
       <<"VA",  "Power DC (VA)",     <<-4, -3, -3, -2>> >> >>

\* the start command byte 0xF2 (line 267)
StartByte == 242

\* a full packet is 19 bytes (line 278)
PacketLen == 19

(***************************************************************************)
(* parse_121GW_data (lines 204-256), statement by statement.               *)
(***************************************************************************)
\* lines 207-209: XOR of data[0] .. data[n-1]
RECURSIVE XorBytes(_, _)
XorBytes(data, n) ==
    IF n = 0 THEN 0 ELSE BitXor(XorBytes(data, n - 1), At(data, n - 1))

\* a checksum loop that stops one byte early
calculated_checksum_short(data) == XorBytes(data, 17)

calculated_checksum(data) == XorBytes(data, 18)

\* line 212, negated: the packet passes the checksum test
ChecksumOK(data) == calculated_checksum(data) = At(data, 18)

\* line 220
main_mode_idx(data) == BitAnd(At(data, 5), 31)

\* line 221
main_range_idx(data) == BitAnd(At(data, 6), 15)

\* line 223 and 224 raise IndexError exactly when the mode index is no index
\* of MODE_RANGE_LIST
ModeIndexError(data) == main_mode_idx(data) >= Len(MODE_RANGE_LIST)

\* line 225 raises IndexError exactly when the range index is no index of the
\* mode's exponent list
RangeIndexError(data) ==
    main_range_idx(data) >= Len(MODE_RANGE_LIST[main_mode_idx(data) + 1][3])

\* line 223
Assign223(o, data) ==
    [o EXCEPT !.main_mode_short = MODE_RANGE_LIST[main_mode_idx(data) + 1][1]]

\* An assignment that stores the short name as the long one:
Assign224_short(o, data) ==
    [o EXCEPT !.main_mode_long = MODE_RANGE_LIST[main_mode_idx(data) + 1][1]]

\* line 224
Assign224(o, data) ==
    [o EXCEPT !.main_mode_long = MODE_RANGE_LIST[main_mode_idx(data) + 1][2]]

\* An assignment that always takes the mode's first exponent:
Assign225_first(o, data) ==
    [o EXCEPT !.main_range = MODE_RANGE_LIST[main_mode_idx(data) + 1][3][1]]

\* line 225
Assign225(o, data) ==
    [o EXCEPT !.main_range =
        MODE_RANGE_LIST[main_mode_idx(data) + 1][3][main_range_idx(data) + 1]]

\* A sign taken from bit 7 of byte 6:
main_sign_bit7(data) == IF BitAnd(Shr(At(data, 6), 7), 1) # 0 THEN -1 ELSE 1

\* line 231
main_sign(data) == IF BitAnd(Shr(At(data, 6), 6), 1) # 0 THEN -1 ELSE 1

\* line 232
IsOFL(data) == BitAnd(Shr(At(data, 6), 7), 1) # 0

\* A mantissa whose top two bits are bits 1 and 0 of byte 5:
main_value_low(data) ==
    BitOr(BitOr(BitAnd(Shl(At(data, 5), 16), 196608), Shl(At(data, 7), 8)),
          At(data, 8))

\* line 235
main_value(data) ==
    BitOr(BitOr(BitAnd(Shl(At(data, 5), 10), 196608), Shl(At(data, 7), 8)),
          At(data, 8))

\* A mailbox that keeps a value that has not been read yet:
AssignValue_keep(o, data) ==
    IF o.is_new_value THEN o
    ELSE [o EXCEPT !.main_value_float =
            IF IsOFL(data) THEN OFL(main_sign(data))
            ELSE Float(main_value(data) * main_sign(data), o.main_range)]

\* lines 231-236; line 236 reads self.main_range back
AssignValue(o, data) ==
    [o EXCEPT !.main_value_float =
        IF IsOFL(data) THEN OFL(main_sign(data))
        ELSE Float(main_value(data) * main_sign(data), o.main_range)]

\* line 256
Assign256(o) == [o EXCEPT !.is_new_value = TRUE]

\* The whole call: the instance afterwards, and whether IndexError was raised.
\* A decoder that does not test the checksum at all:
parse_121GW_data_nocheck(o, data) ==
    IF ModeIndexError(data) THEN [obj |-> o, raised |-> TRUE]
    ELSE IF RangeIndexError(data)
    THEN [obj |-> Assign224(Assign223(o, data), data), raised |-> TRUE]
    ELSE [obj |-> Assign256(AssignValue(
                     Assign225(Assign224(Assign223(o, data), data), data), data)),
          raised |-> FALSE]

\* A decoder whose checksum loop covers bytes 0..16 only:
parse_121GW_data_short(o, data) ==
    IF calculated_checksum_short(data) # At(data, 18)
    THEN [obj |-> o, raised |-> FALSE]
    ELSE parse_121GW_data_nocheck(o, data)

\* A decoder that raises when the checksum does not match:
parse_121GW_data_raising(o, data) ==
    IF ~ChecksumOK(data) \/ ModeIndexError(data) THEN [obj |-> o, raised |-> TRUE]
    ELSE IF RangeIndexError(data)
    THEN [obj |-> Assign224(Assign223(o, data), data), raised |-> TRUE]
    ELSE [obj |-> Assign256(AssignValue(
                     Assign225(Assign224(Assign223(o, data), data), data), data)),
          raised |-> FALSE]

\* A decoder that returns quietly when an index is out of range:
parse_121GW_data_guarded(o, data) ==
    IF ~ChecksumOK(data) \/ ModeIndexError(data) \/ RangeIndexError(data)
    THEN [obj |-> o, raised |-> FALSE]
    ELSE [obj |-> Assign256(AssignValue(
                     Assign225(Assign224(Assign223(o, data), data), data), data)),
          raised |-> FALSE]

parse_121GW_data(o, data) ==
    IF ~ChecksumOK(data) THEN [obj |-> o, raised |-> FALSE]
    ELSE IF ModeIndexError(data) THEN [obj |-> o, raised |-> TRUE]
    ELSE IF RangeIndexError(data)
    THEN [obj |-> Assign224(Assign223(o, data), data), raised |-> TRUE]
    ELSE [obj |-> Assign256(AssignValue(
                     Assign225(Assign224(Assign223(o, data), data), data), data)),
          raised |-> FALSE]

(***************************************************************************)
(* __init__ (lines 177-188): main_value_float is not assigned.             *)
(***************************************************************************)
InitSelf ==
    [buffer               |-> <<>>,
     is_waiting_for_start |-> TRUE,
     is_new_value         |-> FALSE,
     main_mode_short      |-> "",
     main_mode_long       |-> "",
     main_range           |-> 0,
     main_value_float     |-> Unassigned]

(***************************************************************************)
(* notification_handler (lines 259-282).                                   *)
(***************************************************************************)
\* lines 281-282
ClearBuffer(o) == [o EXCEPT !.buffer = <<>>, !.is_waiting_for_start = TRUE]

\* A scan that buffers every byte it sees:
ScanForStart_any(o, byte) ==
    [o EXCEPT !.is_waiting_for_start = FALSE, !.buffer = Append(@, byte)]

\* lines 267-271: a byte seen while waiting for the start command
ScanForStart(o, byte) ==
    IF byte = 242
    THEN [o EXCEPT !.is_waiting_for_start = FALSE, !.buffer = Append(@, byte)]
    ELSE o

\* line 274
Collect(o, byte) == [o EXCEPT !.buffer = Append(@, byte)]

\* One iteration of the loop of line 264: the instance afterwards, whether
\* IndexError escaped from parse_121GW_data, and the packets handed to it.
\* A reassembler that takes every 0xF2 for a start command:
notification_byte_restart(o, byte) ==
    IF o.is_waiting_for_start \/ byte = 242
    THEN IF byte = 242
         THEN [obj |-> [o EXCEPT !.is_waiting_for_start = FALSE,
                                 !.buffer = <<byte>>],
               raised |-> FALSE, handed |-> <<>>]
         ELSE [obj |-> o, raised |-> FALSE, handed |-> <<>>]
    ELSE LET o1 == [o EXCEPT !.buffer = Append(@, byte)] IN
         IF Len(o1.buffer) > 18
         THEN IF Len(o1.buffer) = 19
              THEN LET r == parse_121GW_data(o1, o1.buffer) IN
                   IF r.raised
                   THEN [obj |-> r.obj, raised |-> TRUE, handed |-> <<o1.buffer>>]
                   ELSE [obj |-> ClearBuffer(r.obj), raised |-> FALSE,
                         handed |-> <<o1.buffer>>]
              ELSE [obj |-> ClearBuffer(o1), raised |-> FALSE, handed |-> <<>>]
         ELSE [obj |-> o1, raised |-> FALSE, handed |-> <<>>]

notification_byte(o, byte) ==
    IF o.is_waiting_for_start
    THEN [obj |-> ScanForStart(o, byte), raised |-> FALSE, handed |-> <<>>]
    ELSE LET o1 == Collect(o, byte) IN
         IF Len(o1.buffer) > 18
         THEN IF Len(o1.buffer) = 19
              THEN LET r == parse_121GW_data(o1, o1.buffer) IN
                   IF r.raised
                   THEN [obj |-> r.obj, raised |-> TRUE, handed |-> <<o1.buffer>>]
                   ELSE [obj |-> ClearBuffer(r.obj), raised |-> FALSE,
                         handed |-> <<o1.buffer>>]
              ELSE [obj |-> ClearBuffer(o1), raised |-> FALSE, handed |-> <<>>]
         ELSE [obj |-> o1, raised |-> FALSE, handed |-> <<>>]

\* The loop of line 264 over data[lo] .. data[hi], in order.  An IndexError
\* ends the loop: the bytes after the one that completed the packet are not
\* looked at.  (The range is processed as two halves, one after the other,
\* only to keep the evaluation shallow.)
RECURSIVE HandleRange(_, _, _, _)
HandleRange(o, data, lo, hi) ==
    IF lo > hi THEN [obj |-> o, raised |-> FALSE, handed |-> <<>>]
    ELSE IF lo = hi THEN notification_byte(o, data[lo])
    ELSE LET mid == (lo + hi) \div 2
             r1 == HandleRange(o, data, lo, mid)
         IN  IF r1.raised THEN r1
             ELSE LET r2 == HandleRange(r1.obj, data, mid + 1, hi) IN
                  [obj |-> r2.obj, raised |-> r2.raised,
                   handed |-> r1.handed \o r2.handed]

\* The whole call notification_handler(data).
notification_handler(o, data) == HandleRange(o, data, 1, Len(data))

(***************************************************************************)
(* connect (lines 39-80) and __new__ (lines 167-175).  A Python str is a   *)
(* sequence of one-character strings; the argument `address` is None or a  *)
(* str.  A scanned device is a record of its identifier(), its address()   *)
(* and what its connect() does: "ok", "raises", or "not_connected" (it     *)
(* returns but is_connected() is False).                                   *)
(***************************************************************************)
\* EEVBlog121GW.DEVICE_NAME (line 97)
DEVICE_NAME == <<"1", "2", "1", "G", "W">>

None == [isNone |-> TRUE, s |-> <<>>]

Str(s) == [isNone |-> FALSE, s |-> s]

\* Python's truth value of None or a str
Truthy(a) == ~a.isNone /\ a.s # <<>>

\* Python's `sub in s` for two str
Contains(sub, s) ==
    \E i \in 0..(Len(s) - Len(sub)) : SubSeq(s, i + 1, i + Len(sub)) = sub

\* line 55: address or address == ''
ByName(address) == Truthy(address) \/ (~address.isNone /\ address.s = <<>>)

\* lines 53-63: the loop over the scan results from index i on.  dev = 0: no
\* device selected.  `None in dev.address()` raises TypeError.
RECURSIVE SelectDevice(_, _, _)
SelectDevice(address, devices, i) ==
    IF i > Len(devices) THEN [dev |-> 0, raised |-> FALSE]
    ELSE IF ByName(address)
    THEN IF Contains(DEVICE_NAME, devices[i].identifier)
         THEN [dev |-> i, raised |-> FALSE]
         ELSE SelectDevice(address, devices, i + 1)
    ELSE IF address.isNone
         THEN [dev |-> 0, raised |-> TRUE]
         ELSE IF Contains(address.s, devices[i].address)
              THEN [dev |-> i, raised |-> FALSE]
              ELSE SelectDevice(address, devices, i + 1)

\* The value of connect(address): kind "device" (line 80, dev is the index of
\* the device in the scan results), "None" (lines 44, 66, 73, 77) or
\* "TypeError" (raised at line 60).
connect(address, e) ==
    IF e.adapters = 0 THEN [kind |-> "None", dev |-> 0]
    ELSE LET sel == SelectDevice(address, e.devices, 1) IN
         IF sel.raised THEN [kind |-> "TypeError", dev |-> 0]
         ELSE IF sel.dev = 0 THEN [kind |-> "None", dev |-> 0]
         ELSE IF e.devices[sel.dev].connect # "ok" THEN [kind |-> "None", dev |-> 0]
         ELSE [kind |-> "device", dev |-> sel.dev]

\* __new__ (lines 167-175): what EEVBlog121GW(adapter) evaluates to.  When
\* __new__ returns None, __init__ is not run and the caller gets None.
New(adapter, e) ==
    LET device == connect(adapter, e) IN
    IF device.kind = "device" THEN [kind |-> "instance", dev |-> device.dev]
    ELSE device

\* close (lines 196-202) on the device d, with guard removed:
close_unguarded(d) ==
    [d EXCEPT !.is_connected = FALSE,
              !.log = @ \o <<"unsubscribe", "disconnect">>]

\* close (lines 196-202): the device afterwards.  self.device is a peripheral
\* object, which is true; disconnect() ends the connection.
close(d) ==
    IF d.is_connected
    THEN [d EXCEPT !.is_connected = FALSE,
                   !.log = @ \o <<"unsubscribe", "disconnect">>]
    ELSE d

(***************************************************************************)
(* Packets used as inputs.  MkFrame builds a packet with a correct         *)
(* checksum from bytes 1, 5, 6, 7 and 8 (the other payload bytes are 0).   *)
(***************************************************************************)
Payload(b1, b5, b6, b7, b8) ==
    <<StartByte, b1, 0, 0, 0, b5, b6, b7, b8, 0, 0, 0, 0, 0, 0, 0, 0, 0>>

MkFrame(b1, b5, b6, b7, b8) ==
    Append(Payload(b1, b5, b6, b7, b8), XorBytes(Payload(b1, b5, b6, b7, b8), 18))

\* the packet with bit `bit` (0..151, bit 0 = least significant bit of byte 0)
\* inverted
Flip(f, bit) == [f EXCEPT ![(bit \div 8) + 1] = BitXor(@, 2 ^ (bit % 8))]

\* mode 1 (Voltage DC), range index 3, positive, mantissa 0x3039 = 12345
FrameVDC == MkFrame(0, 1, 3, 48, 57)
\* mode 9 (Resistance), range index 2, negative, mantissa 7
FrameOhmNeg == MkFrame(0, 9, 66, 0, 7)
\* mode 17 (Current DC uA), range index 0, mantissa 0
FrameZero == MkFrame(0, 17, 0, 0, 0)
\* mode 9, range index 6, overflow
FrameOFL == MkFrame(0, 9, 134, 1, 2)
\* mode 6 (Frequency), range index 3, 0xF2 in bytes 1 and 7
FrameMarker == MkFrame(242, 6, 3, 242, 5)
\* byte 5 = 0xD4: mode 20 (Current AC A), bits 7 and 6 set; range index 1
FrameTop == MkFrame(0, 212, 1, 0, 1)
\* mode index 25: no entry of MODE_RANGE_LIST
FrameBadMode == MkFrame(0, 25, 0, 0, 0)
\* mode 0 has one exponent; range index 1
FrameBadRange == MkFrame(0, 0, 1, 0, 0)

ValidFrames ==
    {FrameVDC, FrameOhmNeg, FrameZero, FrameOFL, FrameMarker, FrameTop,
     FrameBadMode, FrameBadRange}

InRange(data) == ~ModeIndexError(data) /\ ~RangeIndexError(data)

\* every single-bit corruption of two of the packets
FlippedFrames == {Flip(f, bit) : f \in {FrameVDC, FrameMarker}, bit \in 0..151}

DecodeInputs == ValidFrames \cup FlippedFrames

(***************************************************************************)
(* State.                                                                  *)
(***************************************************************************)
(***************************************************************************)
(* agilent34970A.py: the channel selection of the Agilent 34970A.  The     *)
(* instance is a record of its attribute working_ch and of the instrument  *)
(* behind it: scan, the instrument's scan list (a set of channels), and    *)
(* out, the commands written to it.  A command is a record of its keyword, *)
(* of the channel list it carries and of the channel object it was written *)
(* through (NoChannel: written through the instrument object).             *)
(***************************************************************************)
\* channels 1 and 2 of a 34901A card in slot 100 (lines 682-685)
Channels == {101, 102}

\* the values of a ROUT:SCAN channel list
ScanLists == SUBSET Channels

\* self.working_ch = None (line 701)
NoChannel == 0

\* no Agilent34970A constructed
NoDmm == [made |-> FALSE, working_ch |-> NoChannel, scan |-> {}, out |-> <<>>]

\* Agilent34970A.__init__ (lines 678-701) on an instrument whose scan list
\* is scan0
Agilent34970A_init(scan0) ==
    [made |-> TRUE, working_ch |-> NoChannel, scan |-> scan0, out |-> <<>>]

Command(cmd, list, via) == [cmd |-> cmd, list |-> list, via |-> via]

\* the instrument receives a command: ROUT:SCAN replaces its scan list, *RST
\* empties it, the other commands leave it alone
write(d, c) ==
    [d EXCEPT !.out = Append(@, c),
              !.scan = IF c.cmd = "ROUT:SCAN" THEN c.list
                       ELSE IF c.cmd = "*RST" THEN {}
                       ELSE @]

\* BaseChannel.insert_id (lines 39-52): the state it leaves
insert_id(d, id, cmd) ==
    IF cmd = "READ?" /\ d.working_ch # id
    THEN [write(d, Command("ROUT:SCAN", {id}, id)) EXCEPT !.working_ch = id]
    ELSE d

\* a command written through the channel object id: insert_id, then the
\* parent's write
channel_write(d, id, cmd) == write(insert_id(d, id, cmd), Command(cmd, {}, id))

\* the scan_list setter (lines 722-726)
set_scan_list(d, list) == write(d, Command("ROUT:SCAN", list, NoChannel))

\* Agilent34970A.reset (lines 749-751)
reset(d) == write(d, Command("*RST", {}, NoChannel))

VARIABLES
    self,     \* the EEVBlog121GW instance
    arg,      \* the packet last handed to parse_121GW_data (<<>>: none yet)
    ncalls,   \* number of packets handed to parse_121GW_data so far
    raised,   \* whether the last call of the decoder or handler raised IndexError
    wire,     \* bytes sent by the meter and not yet delivered to the handler
    sent,     \* number of stream items the meter has sent
    base,     \* history: the instance when `fed` started to be delivered
    fed,      \* history: the bytes sent since `base`
    hpc,      \* handler thread: the line the running notification_handler is at
    data,     \* handler thread: the bytes of its argument not yet looped over
    rpc,      \* reader thread: the line the running `reading` call is at
    now,      \* time.time(), in seconds since the reader's current call began
    t_end,    \* reader thread: the local `end` of line 157
    result,   \* what the last `reading` call returned
    nreads,   \* number of `reading` calls begun
    seen,     \* the Reading attributes the caller read after the last call
    hist,     \* history of the decodes (see InitHist)
    env,      \* what connect() finds: adapter, scan results, the device's behaviour
    made,     \* what the expression EEVBlog121GW(adapter) produced
    device,   \* instance.device: is_connected() and the calls close() made on it
    life,     \* close() calls made so far, and whether __del__ has run
    dmm       \* the Agilent34970A instance and the instrument behind it

decodeVars == <<self, arg, ncalls, raised>>

streamVars == <<wire, sent, base, fed>>

handlerVars == <<hpc, data>>

readerVars == <<rpc, now, t_end, result, nreads, seen>>

threadVars == <<handlerVars, readerVars, hist>>

connVars == <<env, made, device, life>>

dmmVars == <<dmm>>

vars == <<decodeVars, streamVars, threadVars, connVars, dmmVars>>

\* kind: "none" while no call has returned, "value" (line 165), "timeout"
\* (line 163) or "AttributeError"; value: the value returned; src: the number
\* of the packet whose decode stored that value; done: hist.done at the return
NoResult == [kind |-> "none", value |-> Unassigned, src |-> 0, done |-> 0]

\* vsrc: number of the packet whose decode last assigned main_value_float;
\* done: number of the last packet whose decode reached line 256;
\* entry_done: `done` when the reader's current call was entered;
\* entry_value: main_value_float when the reader's current call was entered;
\* set_at: the time (on the clock `now`) at which is_new_value was last set
\*         during the reader's current call, -1 if it was not;
\* readings: the Readings that decodes have stored completely.
InitHist ==
    [vsrc |-> 0, done |-> 0, entry_done |-> 0, entry_value |-> Unassigned,
     set_at |-> -1, readings |-> {}]

InitThreads ==
    /\ hpc = "idle"
    /\ data = <<>>
    /\ rpc = "idle"
    /\ now = 0
    /\ t_end = 0
    /\ result = NoResult
    /\ nreads = 0
    /\ seen = <<>>
    /\ hist = InitHist

\* nothing constructed yet
NotMade == [kind |-> "none", dev |-> 0]

NoEnv == [address |-> None, adapters |-> 0, devices |-> <<>>]

\* no device yet
NoDevice == [is_connected |-> FALSE, log |-> <<>>]

InitConn ==
    /\ env = NoEnv
    /\ made = NotMade
    /\ device = NoDevice
    /\ life = [closes |-> 0, deleted |-> FALSE]
    /\ dmm = NoDmm

(***************************************************************************)
(* SpecDecode: the decoder alone, called on packets of DecodeInputs.       *)
(***************************************************************************)
InitDecode ==
    /\ self = InitSelf
    /\ arg = <<>>
    /\ ncalls = 0
    /\ raised = FALSE
    /\ wire = <<>>
    /\ sent = 0
    /\ base = InitSelf
    /\ fed = <<>>
    /\ InitThreads
    /\ InitConn

ParseCall(frame) ==
    /\ ncalls < MaxCalls
    /\ LET r == parse_121GW_data(self, frame) IN
       /\ self' = r.obj
       /\ raised' = r.raised
    /\ arg' = frame
    /\ ncalls' = ncalls + 1
    /\ UNCHANGED <<streamVars, threadVars>>
    /\ UNCHANGED <<connVars, dmmVars>>

NextDecode == \E frame \in DecodeInputs : ParseCall(frame)

SpecDecode == InitDecode /\ [][NextDecode]_vars

\* the last call published a Reading: the flag is set and a value is stored
Accepted == self.is_new_value /\ self.main_value_float # Unassigned

\* a step that is one call of parse_121GW_data
DecodeStep == ncalls' = ncalls + 1

\* C1 (as stated): every 19-byte packet handed to parse_121GW_data while the
\* flag is clear is accepted (Reading stored, is_new_value set) if and only if
\* byte 18 equals the XOR of bytes 0..17.
C1_AcceptIffChecksum ==
    [][(DecodeStep /\ ~self.is_new_value) => (Accepted' <=> ChecksumOK(arg'))]_vars

\* C1 (amended): a packet handed to parse_121GW_data while the flag is clear
\* is accepted if and only if byte 18 equals the XOR of bytes 0..17 and its
\* mode index and range index are indices of MODE_RANGE_LIST; with a correct
\* checksum and an index out of range the call raises IndexError instead.
C1_AcceptIffChecksumAndInRange ==
    [][(DecodeStep /\ ~self.is_new_value) =>
         /\ Accepted' <=> (ChecksumOK(arg') /\ InRange(arg'))
         /\ raised' <=> (ChecksumOK(arg') /\ ~InRange(arg'))]_vars

\* C1 witness: a packet with a correct checksum and in-range indices was
\* decoded and published.
C1_Witness ==
    /\ ncalls = 1
    /\ ChecksumOK(arg) /\ InRange(arg)
    /\ Accepted
    /\ self.main_value_float = Float(12345, -1)

\* C10: a packet that is a valid packet with exactly one of its 152 bits
\* inverted is rejected by parse_121GW_data: no attribute of the instance
\* changes (so no Reading field changes and is_new_value is not set) and no
\* error is raised.
C10_SingleBitFlipRejected ==
    [][(DecodeStep /\ arg' \in FlippedFrames) => (self' = self /\ ~raised')]_vars

\* C10 witness: a corrupted packet was handed to the decoder after a packet
\* had been accepted, and the Reading of the accepted packet is still there.
C10_Witness ==
    /\ ncalls = 2
    /\ arg \in FlippedFrames
    /\ self.is_new_value
    /\ self.main_value_float = OFL(1)
    /\ self.main_mode_long = "Resistance (Ohm)"

(***************************************************************************)
(* SpecStream: the meter sends items of StreamItems; the Bluetooth         *)
(* subsystem delivers the pending bytes to notification_handler in chunks  *)
(* of any size, one call after the other.                                  *)
(***************************************************************************)
\* a byte that is no start command
StrayByte == <<7>>

\* the first 10 bytes of a packet whose transmission was cut.  Followed by the
\* first 9 bytes of FrameVDC they form 19 bytes with a correct checksum,
\* mode 0 and range index 1.
Trunc10 == <<242, 10, 0, 0, 0, 0, 1, 0, 0, 0>>

\* FrameVDC with bit 6 of its checksum byte inverted
FrameBadSum == Flip(FrameVDC, 150)

StreamItems ==
    {FrameVDC, FrameMarker, FrameBadRange, FrameBadSum, Trunc10, StrayByte}

InitStream == InitDecode

\* the meter sends one more item
Transmit(item) ==
    /\ sent < MaxSent
    /\ sent' = sent + 1
    /\ wire' = wire \o item
    /\ IF wire = <<>>
       THEN base' = self /\ fed' = item
       ELSE base' = base /\ fed' = fed \o item
    /\ UNCHANGED <<decodeVars, threadVars>>
    /\ UNCHANGED <<connVars, dmmVars>>

\* one call notification_handler(data), data being the first n pending bytes
Notify(n) ==
    /\ n \in 1..Len(wire)
    /\ LET r == notification_handler(self, SubSeq(wire, 1, n)) IN
       /\ self' = r.obj
       /\ raised' = r.raised
       /\ ncalls' = ncalls + Len(r.handed)
       /\ arg' = IF r.handed = <<>> THEN arg ELSE r.handed[Len(r.handed)]
    /\ wire' = SubSeq(wire, n + 1, Len(wire))
    /\ UNCHANGED <<sent, base, fed, threadVars>>
    /\ UNCHANGED <<connVars, dmmVars>>

NextStream ==
    \/ \E item \in StreamItems : Transmit(item)
    \/ \E n \in 1..(MaxSent * PacketLen) : Notify(n)

SpecStream == InitStream /\ [][NextStream]_vars

\* a 19-byte packet that starts with the start command and has a correct checksum
ValidFrame(f) == Len(f) = 19 /\ At(f, 0) = StartByte /\ ChecksumOK(f)

\* the reassembler is scanning for a start command
Idle(o) == o.is_waiting_for_start /\ o.buffer = <<>>

\* C2: all of one valid 19-byte packet has been delivered, in one call or
\* split over any number of calls: the instance (Reading and reassembler
\* state) is the one a single call with the whole packet produces from the
\* same starting state.
C2_SplitSameAsSingleCall ==
    (wire = <<>> /\ ValidFrame(fed)) => self = notification_handler(base, fed).obj

\* C2 restricted to deliveries that start with the reassembler scanning for a
\* start command; this holds.
SplitSameAsSingleCallFromIdle ==
    (wire = <<>> /\ ValidFrame(fed) /\ Idle(base))
        => self = notification_handler(base, fed).obj

\* C9: a valid packet with in-range indices and 0xF2 among its bytes 1..17,
\* delivered in any chunks to a reassembler that was scanning for a start
\* command, is handed whole to the decoder and decoded: the Reading is the
\* decoder's result on that packet and is_new_value is set; and in every
\* accumulating state a 0xF2 byte would be appended to the buffer like any
\* other byte.
C9_MarkerInPayload ==
    /\ (/\ wire = <<>> /\ ValidFrame(fed) /\ InRange(fed) /\ Idle(base)
        /\ \E i \in 1..17 : At(fed, i) = StartByte)
       => /\ arg = fed
          /\ self = parse_121GW_data(base, fed).obj
          /\ self.is_new_value
    /\ (~self.is_waiting_for_start /\ Len(self.buffer) < 18)
       => notification_byte(self, StartByte).obj
            = [self EXCEPT !.buffer = Append(@, StartByte)]

\* C9 witness: FrameMarker (0xF2 in bytes 1 and 7) was delivered and decoded
\* to 0xF205 = 61957 Hz.
C9_Witness ==
    /\ wire = <<>> /\ fed = FrameMarker /\ Idle(base)
    /\ arg = FrameMarker
    /\ self.is_new_value
    /\ self.main_value_float = Float(61957, 0)
    /\ self.main_mode_long = "Frequency (Hz)"

(***************************************************************************)
(* SpecRW: the two threads of the driver.  The Bluetooth subsystem calls   *)
(* notification_handler on its own thread; the user's thread calls the     *)
(* `reading` property.  No lock protects the attributes they share, so the *)
(* statements of parse_121GW_data and of `reading` interleave freely.      *)
(* Each packet is delivered in one call (the reassembler state is private  *)
(* to the handler thread; SpecStream covers the chunking).                 *)
(***************************************************************************)
\* line 157: end = time.time() + 2
TimeoutWindow == 2

RWItems == {FrameVDC, FrameZero, FrameBadSum}

ReadingOf(o) ==
    <<o.main_mode_short, o.main_mode_long, o.main_range, o.main_value_float>>

InCall == rpc \in {"r157", "r159", "r161", "r165"}

InitRW == InitDecode

\* the meter sends a packet once the previous one has been handed over
TransmitRW(item) ==
    /\ sent < MaxSentRW
    /\ wire = <<>>
    /\ wire' = item
    /\ sent' = sent + 1
    /\ UNCHANGED <<decodeVars, base, fed, threadVars>>
    /\ UNCHANGED <<connVars, dmmVars>>

\* line 259: the subsystem calls notification_handler with the pending bytes
Deliver ==
    /\ hpc = "idle"
    /\ wire # <<>>
    /\ hpc' = "loop"
    /\ data' = wire
    /\ wire' = <<>>
    /\ raised' = FALSE
    /\ UNCHANGED <<self, arg, ncalls, sent, base, fed, readerVars, hist>>
    /\ UNCHANGED <<connVars, dmmVars>>

\* lines 264-278, iterated over `d` until a 19-byte packet is in the buffer
\* or `d` is used up: the instance, the bytes left, and whether a packet is
\* due to be parsed.
RECURSIVE Reassemble(_, _)
Reassemble(o, d) ==
    IF d = <<>> THEN [obj |-> o, rest |-> <<>>, full |-> FALSE]
    ELSE IF o.is_waiting_for_start
    THEN Reassemble(ScanForStart(o, Head(d)), Tail(d))
    ELSE LET o1 == Collect(o, Head(d)) IN
         IF Len(o1.buffer) > 18
         THEN IF Len(o1.buffer) = 19
              THEN [obj |-> o1, rest |-> Tail(d), full |-> TRUE]
              ELSE Reassemble(ClearBuffer(o1), Tail(d))
         ELSE Reassemble(o1, Tail(d))

\* lines 264-280: the loop, up to the next call of parse_121GW_data or to its
\* end.  These iterations touch only buffer and is_waiting_for_start, which
\* the reader's thread never accesses, so they are taken in one step.
HBytes ==
    /\ hpc = "loop"
    /\ data # <<>>
    /\ LET r == Reassemble(self, data) IN
       /\ self' = r.obj
       /\ data' = r.rest
       /\ IF r.full
          THEN /\ hpc' = "p207"
               /\ arg' = r.obj.buffer
               /\ ncalls' = ncalls + 1
          ELSE /\ hpc' = "loop"
               /\ UNCHANGED <<arg, ncalls>>
    /\ UNCHANGED <<raised, streamVars, readerVars, hist>>
    /\ UNCHANGED <<connVars, dmmVars>>

\* line 264: the loop is over, the call returns
HReturn ==
    /\ hpc = "loop"
    /\ data = <<>>
    /\ hpc' = "idle"
    /\ UNCHANGED <<decodeVars, streamVars, data, readerVars, hist>>
    /\ UNCHANGED <<connVars, dmmVars>>

\* an IndexError leaves parse_121GW_data and notification_handler
RaiseIndexError ==
    /\ hpc' = "idle"
    /\ data' = <<>>
    /\ raised' = TRUE
    /\ UNCHANGED <<self, hist>>

\* lines 207-214: the checksum test
P207 ==
    /\ hpc = "p207"
    /\ hpc' = IF ChecksumOK(arg) THEN "p223" ELSE "h281"
    /\ UNCHANGED <<decodeVars, streamVars, data, readerVars, hist>>
    /\ UNCHANGED <<connVars, dmmVars>>

\* lines 220-223
P223 ==
    /\ hpc = "p223"
    /\ IF ModeIndexError(arg)
       THEN RaiseIndexError
       ELSE /\ self' = Assign223(self, arg)
            /\ hpc' = "p224"
            /\ UNCHANGED <<raised, data, hist>>
    /\ UNCHANGED <<arg, ncalls, streamVars, readerVars>>
    /\ UNCHANGED <<connVars, dmmVars>>

\* line 224
P224 ==
    /\ hpc = "p224"
    /\ self' = Assign224(self, arg)
    /\ hpc' = "p225"
    /\ UNCHANGED <<arg, ncalls, raised, streamVars, data, readerVars, hist>>
    /\ UNCHANGED <<connVars, dmmVars>>

\* line 225
P225 ==
    /\ hpc = "p225"
    /\ IF RangeIndexError(arg)
       THEN RaiseIndexError
       ELSE /\ self' = Assign225(self, arg)
            /\ hpc' = "p231"
            /\ UNCHANGED <<raised, data, hist>>
    /\ UNCHANGED <<arg, ncalls, streamVars, readerVars>>
    /\ UNCHANGED <<connVars, dmmVars>>

\* lines 231-236
\* A decode that sets the flag without having stored a value:
P231_skip ==
    /\ hpc = "p231"
    /\ hpc' = "p256"
    /\ UNCHANGED <<decodeVars, streamVars, data, readerVars, hist>>
    /\ UNCHANGED <<connVars, dmmVars>>

P231 ==
    /\ hpc = "p231"
    /\ self' = AssignValue(self, arg)
    /\ hpc' = "p256"
    /\ hist' = [hist EXCEPT !.vsrc = ncalls,
                            !.readings = @ \cup {ReadingOf(self')}]
    /\ UNCHANGED <<arg, ncalls, raised, streamVars, data, readerVars>>
    /\ UNCHANGED <<connVars, dmmVars>>

\* lines 240-256
P256 ==
    /\ hpc = "p256"
    /\ self' = Assign256(self)
    /\ hpc' = "h281"
    /\ hist' = [hist EXCEPT !.done = ncalls,
                            !.set_at = IF InCall /\ ~self.is_new_value
                                       THEN now ELSE @]
    /\ UNCHANGED <<arg, ncalls, raised, streamVars, data, readerVars>>
    /\ UNCHANGED <<connVars, dmmVars>>

\* lines 281-282
H281 ==
    /\ hpc = "h281"
    /\ self' = ClearBuffer(self)
    /\ hpc' = "loop"
    /\ UNCHANGED <<arg, ncalls, raised, streamVars, data, readerVars, hist>>
    /\ UNCHANGED <<connVars, dmmVars>>

HandlerStep ==
    \/ Deliver \/ HBytes \/ HReturn
    \/ P207 \/ P223 \/ P224 \/ P225 \/ P231 \/ P256 \/ H281

\* line 155: the call begins.  The clock is read from this instant on.
\* An accessor that does not clear the flag on entry:
R155_noclear ==
    /\ rpc \in {"idle", "got"}
    /\ nreads < MaxReads
    /\ nreads' = nreads + 1
    /\ rpc' = "r157"
    /\ now' = 0
    /\ result' = NoResult
    /\ seen' = <<>>
    /\ hist' = [hist EXCEPT !.entry_done = hist.done,
                            !.entry_value = self.main_value_float,
                            !.set_at = -1]
    /\ UNCHANGED <<self, arg, ncalls, raised, streamVars, handlerVars, t_end>>
    /\ UNCHANGED <<connVars, dmmVars>>

\* An accessor that also resets the reassembler when it is entered:
R155_reset ==
    /\ rpc \in {"idle", "got"}
    /\ nreads < MaxReads
    /\ nreads' = nreads + 1
    /\ self' = ClearBuffer([self EXCEPT !.is_new_value = FALSE])
    /\ rpc' = "r157"
    /\ now' = 0
    /\ result' = NoResult
    /\ seen' = <<>>
    /\ hist' = [hist EXCEPT !.entry_done = hist.done,
                            !.entry_value = self.main_value_float,
                            !.set_at = -1]
    /\ UNCHANGED <<arg, ncalls, raised, streamVars, handlerVars, t_end>>
    /\ UNCHANGED <<connVars, dmmVars>>

R155 ==
    /\ rpc \in {"idle", "got"}
    /\ nreads < MaxReads
    /\ nreads' = nreads + 1
    /\ self' = [self EXCEPT !.is_new_value = FALSE]
    /\ rpc' = "r157"
    /\ now' = 0
    /\ result' = NoResult
    /\ seen' = <<>>
    /\ hist' = [hist EXCEPT !.entry_done = hist.done,
                            !.entry_value = self.main_value_float,
                            !.set_at = -1]
    /\ UNCHANGED <<arg, ncalls, raised, streamVars, handlerVars, t_end>>
    /\ UNCHANGED <<connVars, dmmVars>>

\* line 157
R157 ==
    /\ rpc = "r157"
    /\ t_end' = now + TimeoutWindow
    /\ rpc' = "r159"
    /\ UNCHANGED <<decodeVars, streamVars, handlerVars, now, result, nreads,
                   seen, hist>>
    /\ UNCHANGED <<connVars, dmmVars>>

\* lines 159-160
R159 ==
    /\ rpc = "r159"
    /\ rpc' = IF self.is_new_value THEN "r165" ELSE "r161"
    /\ UNCHANGED <<decodeVars, streamVars, handlerVars, now, t_end, result,
                   nreads, seen, hist>>
    /\ UNCHANGED <<connVars, dmmVars>>

\* lines 161-163
R161 ==
    /\ rpc = "r161"
    /\ IF now > t_end
       THEN /\ result' = [kind |-> "timeout", value |-> TimeoutValue, src |-> 0,
                            done |-> hist.done]
            /\ rpc' = "idle"
       ELSE /\ rpc' = "r159"
            /\ UNCHANGED result
    /\ UNCHANGED <<decodeVars, streamVars, handlerVars, now, t_end, nreads,
                   seen, hist>>
    /\ UNCHANGED <<connVars, dmmVars>>

\* line 165: the read of main_value_float and the return
\* An accessor that clears the flag when it returns the value:
R165_clears ==
    /\ rpc = "r165"
    /\ result' = IF self.main_value_float = Unassigned
                 THEN [kind |-> "AttributeError", value |-> Unassigned,
                       src |-> 0, done |-> hist.done]
                 ELSE [kind |-> "value", value |-> self.main_value_float,
                       src |-> hist.vsrc, done |-> hist.done]
    /\ rpc' = "got"
    /\ self' = [self EXCEPT !.is_new_value = FALSE]
    /\ UNCHANGED <<arg, ncalls, raised, streamVars, handlerVars, now, t_end,
                   nreads, seen, hist>>
    /\ UNCHANGED <<connVars, dmmVars>>

R165 ==
    /\ rpc = "r165"
    /\ result' = IF self.main_value_float = Unassigned
                 THEN [kind |-> "AttributeError", value |-> Unassigned,
                       src |-> 0, done |-> hist.done]
                 ELSE [kind |-> "value", value |-> self.main_value_float,
                       src |-> hist.vsrc, done |-> hist.done]
    /\ rpc' = "got"
    /\ UNCHANGED <<decodeVars, streamVars, handlerVars, now, t_end, nreads,
                   seen, hist>>
    /\ UNCHANGED <<connVars, dmmVars>>

\* The caller, having got a value, reads the other Reading attributes.  (It
\* reads the three at once here; read one by one they interleave with the
\* handler in more ways still.)
ReadAttributes ==
    /\ rpc = "got"
    /\ seen' = <<self.main_mode_short, self.main_mode_long, self.main_range,
                 result.value>>
    /\ rpc' = "idle"
    /\ UNCHANGED <<decodeVars, streamVars, handlerVars, now, t_end, result,
                   nreads, hist>>
    /\ UNCHANGED <<connVars, dmmVars>>

ReaderStep == R155 \/ R157 \/ R159 \/ R161 \/ R165 \/ ReadAttributes

\* A second passes.  The clock matters only while `reading` can still look
\* at it: up to MaxSkew seconds before line 157, and until `end` has passed.
Tick ==
    /\ \/ rpc = "r157" /\ now < MaxSkew
       \/ rpc \in {"r159", "r161"} /\ now <= t_end
    /\ now' = now + 1
    /\ UNCHANGED <<decodeVars, streamVars, handlerVars, rpc, t_end, result,
                   nreads, seen, hist>>
    /\ UNCHANGED <<connVars, dmmVars>>

NextRW ==
    \/ \E item \in RWItems : TransmitRW(item)
    \/ HandlerStep
    \/ ReaderStep
    \/ Tick

SpecRW == InitRW /\ [][NextRW]_vars

\* The reader's thread keeps running and time keeps passing.
SpecRWFair == SpecRW /\ WF_vars(ReaderStep) /\ WF_vars(Tick)

\* the reader's last call has returned
Returned == rpc \in {"idle", "got"} /\ result.kind # "none"

C4_NoTornReading ==
    (rpc = "idle" /\ seen # <<>>) => seen \in hist.readings

\* C5: a `reading` call that returns a value returns one stored by a packet
\* whose decode was completed (line 256) after the call was entered, never
\* the value of a packet whose decode had completed before.
C5_ReturnsLaterDecode ==
    (Returned /\ result.kind = "value") => result.src > hist.entry_done

\* C5 witness: a packet had been decoded before the call was entered, and the
\* call returned the value of the next one.
C5_Witness ==
    /\ Returned /\ result.kind = "value"
    /\ hist.entry_done = 1
    /\ result.src = 2
    /\ result.value = Float(12345, -1)
    /\ hist.entry_value = Float(0, 0)

\* C6: `reading` returns the timeout indication only when more than
\* TimeoutWindow seconds have passed since the call was entered, and not
\* when is_new_value became true within those seconds.
C6_TimeoutOnlyWithoutValue ==
    (Returned /\ result.kind = "timeout")
        => /\ now > TimeoutWindow
           /\ ~(hist.set_at \in 0..TimeoutWindow)

\* The parts of C6 that hold: a timeout is returned only after more than
\* TimeoutWindow seconds, a call during which no decode completes returns
\* the timeout indication, ...
Reading_TimeoutNotEarly ==
    /\ (Returned /\ result.kind = "timeout") => now > TimeoutWindow
    /\ (Returned /\ result.done = hist.entry_done) => result.kind = "timeout"

\* ... and, under SpecRWFair, every call returns.
Reading_Terminates == InCall ~> ~InCall

\* C7: a value `reading` returns for a decoded packet differs from the value
\* it returns on timeout.
C7_TimeoutDistinguished ==
    (Returned /\ result.kind = "value") => result.value # TimeoutValue

\* C8 (as stated): from the return of a value by `reading` until the next
\* packet is decoded, is_new_value is false.
C8_FlagClearAfterRead ==
    (Returned /\ result.kind = "value" /\ hist.done = result.done)
        => ~self.is_new_value

\* C8 (amended): `reading` clears is_new_value when it is entered, not when
\* it returns: from the entry until the next decode completes the flag is
\* false, and after the return of a value it is true until the next call
\* is entered.
C8_FlagClearedOnEntryOnly ==
    /\ (InCall /\ hist.done = hist.entry_done) => ~self.is_new_value
    /\ (Returned /\ result.kind = "value") => self.is_new_value

\* C8 witness: a value was returned, no packet has been decoded since, and
\* the flag is still set.
C8_Witness ==
    /\ Returned /\ result.kind = "value" /\ hist.done = result.done
    /\ hpc = "idle" /\ wire = <<>>
    /\ self.is_new_value

(***************************************************************************)
(* SpecConnect: the expression EEVBlog121GW(adapter) is evaluated once,    *)
(* with any argument of Addresses and any outcome of the scan.             *)
(***************************************************************************)
Identifiers == {DEVICE_NAME, <<"E", "E", "V", "-", "1", "2", "1", "G", "W">>, <<"T", "V">>}

DeviceAddresses == {<<"A", "A">>, <<"A", "B">>}

Addresses == {None, Str(<<>>), Str(<<"A", "B">>), Str(<<"B">>)}

Devices ==
    [identifier : Identifiers, address : DeviceAddresses,
     connect : {"ok", "raises", "not_connected"}]

RECURSIVE SeqsUpTo(_, _)
SeqsUpTo(S, n) ==
    IF n = 0 THEN {<<>>}
    ELSE LET shorter == SeqsUpTo(S, n - 1) IN
         shorter \cup {Append(q, x) : q \in shorter, x \in S}

Environments ==
    [address : Addresses, adapters : 0..1, devices : SeqsUpTo(Devices, MaxDevices)]

InitConnect == InitDecode

\* meter = EEVBlog121GW(e.address) in the environment e
Construct(e) ==
    /\ made = NotMade
    /\ env' = e
    /\ made' = New(e.address, e)
    /\ device' = [device EXCEPT !.is_connected = (made'.kind = "instance")]
    /\ UNCHANGED <<life, decodeVars, streamVars, threadVars, dmmVars>>

NextConnect == \E e \in Environments : Construct(e)

SpecConnect == InitConnect /\ [][NextConnect]_vars

\* the first device of the scan results that satisfies Test(_), 0 if none does
FirstDevice(Test(_)) ==
    IF \E i \in 1..Len(env.devices) : Test(env.devices[i])
    THEN CHOOSE i \in 1..Len(env.devices) :
            /\ Test(env.devices[i])
            /\ \A j \in 1..(i - 1) : ~Test(env.devices[j])
    ELSE 0

HasName(dev) == Contains(DEVICE_NAME, dev.identifier)

HasAddress(dev) == Contains(env.address.s, dev.address)

\* C13: the constructor got a device from connect(); with a non-empty address
\* given it is the first scanned device whose address contains that address,
\* and with no address given (None or '') it is the first scanned device
\* whose identifier contains "121GW".
C13_SelectByNameOrAddress ==
    made.kind = "instance" =>
        made.dev = IF Truthy(env.address) THEN FirstDevice(HasAddress)
                   ELSE FirstDevice(HasName)

\* What connect() does instead: whenever it is given a str, empty or not, it
\* selects the first scanned device whose identifier contains "121GW" and
\* never looks at an address; given None it raises TypeError as soon as the
\* scan has found any device.
Connect_SelectsByNameOnly ==
    /\ made.kind = "instance" =>
          ~env.address.isNone /\ made.dev = FirstDevice(HasName)
    /\ made.kind = "TypeError" <=>
          (env.address.isNone /\ env.adapters > 0 /\ env.devices # <<>>)

\* discovery or connection failed: no adapter, no device selected, connect()
\* raised, or is_connected() false
ConnectFailed ==
    /\ made # NotMade
    /\ \/ env.adapters = 0
       \/ SelectDevice(env.address, env.devices, 1).dev = 0
       \/ env.devices[SelectDevice(env.address, env.devices, 1).dev].connect # "ok"

\* C14: when discovery or connection fails, the construction reports a
\* connection error and does not evaluate to None.
C14_FailureReported ==
    ConnectFailed => made.kind = "ConnectionError"

(***************************************************************************)
(* SpecFields: one packet of FieldFrames is delivered whole, in a single   *)
(* notification, to an instance that has just been constructed.            *)
(***************************************************************************)
\* byte 5: every mode index 0..31 with every value of bits 7..5
Byte5s == 0..255

\* byte 6: every range index 0..15 with bits 7 (overflow) and 6 (sign) in
\* every combination, and with bits 5 and 4 set
Byte6s == {r + h : r \in 0..15, h \in {0, 48, 64, 128, 192}}

\* bytes 7 and 8
Mantissas == {<<0, 0>>, <<48, 57>>, <<255, 255>>}

FieldFrames ==
    {MkFrame(0, b5, b6, mt[1], mt[2]) : b5 \in Byte5s, b6 \in Byte6s, mt \in Mantissas}

InitFields ==
    /\ self = InitSelf
    /\ arg = <<>>
    /\ ncalls = 0
    /\ raised = FALSE
    /\ wire \in FieldFrames
    /\ sent = 1
    /\ base = InitSelf
    /\ fed = wire
    /\ InitThreads
    /\ InitConn

NextFields == Notify(PacketLen)

SpecFields == InitFields /\ [][NextFields]_vars

\* the packet has been delivered and handed to the decoder
Delivered == ncalls = 1 /\ wire = <<>> /\ arg = fed

\* the fields of the packet, by arithmetic on its bytes
ModeField(f) == At(f, 5) % 32

RangeField(f) == At(f, 6) % 16

OverflowBit(f) == At(f, 6) \div 128

SignBit(f) == (At(f, 6) \div 64) % 2

SignOf(f) == IF SignBit(f) = 1 THEN -1 ELSE 1

IndicesInRange(f) ==
    /\ ModeField(f) < 25
    /\ RangeField(f) < Len(MODE_RANGE_LIST[ModeField(f) + 1][3])

\* C11 (as stated): every packet with a correct checksum and bit 7 of byte 6
\* set decodes to main_value_float = 9.9e37, negative iff bit 6 of byte 6 is
\* set, whatever bytes 5, 7 and 8 hold.
C11_OverflowSentinel ==
    (Delivered /\ OverflowBit(arg) = 1)
        => self.main_value_float = Float(99 * SignOf(arg), 36)

\* C11 (amended): that holds for the packets whose mode index and range index
\* are in range, whatever bits 7..5 of byte 5 and bytes 7 and 8 hold; with an
\* index out of range the decode raises IndexError and stores no value.
C11_OverflowSentinelInRange ==
    (Delivered /\ OverflowBit(arg) = 1)
        => IF IndicesInRange(arg)
           THEN /\ self.main_value_float = Float(99 * SignOf(arg), 36)
                /\ self.is_new_value
           ELSE /\ raised
                /\ self.main_value_float = Unassigned

\* C11 witness: mode 9, range index 6, overflow and sign bits set, bits 7
\* and 6 of byte 5 set, bytes 7 and 8 = 0xFF: decoded to -9.9e37.
C11_Witness ==
    /\ Delivered
    /\ arg = MkFrame(0, 201, 198, 255, 255)
    /\ self.main_value_float = Float(-99, 36)
    /\ self.is_new_value

\* the packets C12 is about: mode index 1, range index 3, sign bit 0,
\* overflow bit 0, mantissa 12345 = 0x3039
IsC12Frame(f) ==
    /\ ModeField(f) = 1 /\ RangeField(f) = 3
    /\ SignBit(f) = 0 /\ OverflowBit(f) = 0
    /\ At(f, 5) \div 64 = 0 /\ At(f, 7) = 48 /\ At(f, 8) = 57

\* C12 (as stated): such a packet decodes to main_value_float = 1.2345.
C12_DecodesTo1p2345 ==
    (Delivered /\ IsC12Frame(arg)) => self.main_value_float = Float(12345, -4)

\* C12 (amended): such a packet decodes to 12345 * 10^-1 = 1234.5, the
\* exponent at range index 3 of Voltage DC being -1.
C12_DecodesTo1234p5 ==
    (Delivered /\ IsC12Frame(arg))
        => /\ self.main_range = -1
           /\ self.main_value_float = Float(12345, -1)
           /\ self.main_mode_long = "Voltage DC (V)"

\* C12 witness: the packet F2 00 00 00 00 01 03 30 39 00.. F9 was decoded.
C12_Witness ==
    /\ Delivered
    /\ arg = <<242, 0, 0, 0, 0, 1, 3, 48, 57, 0, 0, 0, 0, 0, 0, 0, 0, 0, 249>>
    /\ IsC12Frame(arg)
    /\ self.main_value_float = <<12345, -1>>

\* C17: a packet with a correct checksum whose mode index is in 25..31, or
\* whose range index is not below the length of its mode's exponent list,
\* makes parse_121GW_data raise IndexError, which leaves
\* notification_handler; is_new_value is not set.  (And no other packet of
\* FieldFrames raises.)
C17_OutOfRangeRaises ==
    Delivered =>
        /\ ~IndicesInRange(arg) => (raised /\ ~self.is_new_value)
        /\ IndicesInRange(arg) => ~raised

\* C17 witness: mode index 31 raised, and so did mode 1 with range index 4.
C17_Witness ==
    /\ Delivered
    /\ raised /\ ~self.is_new_value
    /\ arg \in {MkFrame(0, 31, 0, 0, 0), MkFrame(0, 1, 4, 48, 57)}
    /\ self.buffer = arg

\* the sign and mantissa that C18 and C19 speak of
MantissaHigh(f) == (At(f, 5) \div 64) * 65536 + At(f, 7) * 256 + At(f, 8)

MantissaLow(f) == (At(f, 5) % 4) * 65536 + At(f, 7) * 256 + At(f, 8)

NonOverflow(f) == Delivered /\ OverflowBit(f) = 0 /\ IndicesInRange(f)

\* C18 (as stated): without overflow, mainValue has bits 1 and 0 of byte 5 as
\* its bits 17 and 16, byte 7 as bits 15..8 and byte 8 as bits 7..0; it is in
\* 0..262143.
C18_MantissaFromLowBits ==
    NonOverflow(arg) =>
        /\ main_value(arg) = MantissaLow(arg)
        /\ self.main_value_float = Float(MantissaLow(arg) * SignOf(arg), self.main_range)
        /\ main_value(arg) \in 0..262143

\* C18 (amended): bits 17 and 16 of mainValue are bits 7 and 6 of byte 5
\* (bits 1 and 0 of byte 5 belong to the mode index only); bits 15..8 are
\* byte 7 and bits 7..0 byte 8; mainValue is in 0..262143.
C18_MantissaFromHighBits ==
    NonOverflow(arg) =>
        /\ main_value(arg) = MantissaHigh(arg)
        /\ self.main_value_float = Float(MantissaHigh(arg) * SignOf(arg), self.main_range)
        /\ main_value(arg) \in 0..262143

\* C18 witness: byte 5 = 0xC1 (bits 7 and 6 set, mode 1), bytes 7, 8 = 0xFF:
\* mainValue = 262143, decoded with exponent -4 to 26.2143.
C18_Witness ==
    /\ NonOverflow(arg)
    /\ arg = MkFrame(0, 193, 0, 255, 255)
    /\ main_value(arg) = 262143
    /\ self.main_value_float = Float(262143, -4)

\* C19: a packet with a correct checksum, no overflow and indices in range
\* publishes main_mode_short and main_mode_long of the table entry at index
\* byte 5 & 0x1F, main_range = that entry's exponent at index byte 6 & 0x0F,
\* and main_value_float = mainValue * sign * 10^main_range, sign being -1 iff
\* bit 6 of byte 6 is 1; is_new_value is set.
C19_PublishedReading ==
    NonOverflow(arg) =>
        LET entry == MODE_RANGE_LIST[ModeField(arg) + 1] IN
        /\ self.main_mode_short = entry[1]
        /\ self.main_mode_long = entry[2]
        /\ self.main_range = entry[3][RangeField(arg) + 1]
        /\ self.main_value_float
             = Float(main_value(arg) * SignOf(arg), entry[3][RangeField(arg) + 1])
        /\ self.is_new_value
        /\ ~raised

\* C19 witness: mode 12 (Capacitance), range index 5, negative, mantissa
\* 0x3039: -12345e-6 F.
C19_Witness ==
    /\ NonOverflow(arg)
    /\ arg = MkFrame(0, 12, 69, 48, 57)
    /\ self.main_mode_short = "F"
    /\ self.main_mode_long = "Capacitance (F)"
    /\ self.main_range = -6
    /\ self.main_value_float = Float(-12345, -6)

(***************************************************************************)
(* SpecResync: the meter sends packets back to back; the subscription      *)
(* (line 188) takes effect in the middle of one, so the first notification *)
(* carries that packet from byte k on.  Each later notification carries    *)
(* one whole packet.                                                       *)
(***************************************************************************)
\* mode 6, range index 3, 0xF2 in byte 1 only
FrameShift == MkFrame(242, 6, 3, 0, 5)

ResyncFrames == {FrameVDC, FrameMarker, FrameShift}

InitResync == InitDecode

\* the first bytes the subscription sees: packet f from byte k on
Join(f, k) ==
    /\ sent = 0
    /\ sent' = 1
    /\ wire' = SubSeq(f, k + 1, PacketLen)
    /\ fed' = SubSeq(f, k + 1, PacketLen)
    /\ base' = self
    /\ UNCHANGED <<decodeVars, threadVars, connVars, dmmVars>>

\* the meter sends the next packet once the pending bytes were delivered
TransmitFrame(f) ==
    /\ sent \in 1..MaxFrames
    /\ wire = <<>>
    /\ sent' = sent + 1
    /\ wire' = f
    /\ fed' = fed \o f
    /\ UNCHANGED <<base, decodeVars, threadVars, connVars, dmmVars>>

NextResync ==
    \/ \E f \in ResyncFrames, k \in 0..(PacketLen - 1) : Join(f, k)
    \/ \E f \in ResyncFrames : TransmitFrame(f)
    \/ Notify(Len(wire))

SpecResync == InitResync /\ [][NextResync]_vars

\* a step in which the reassembler hands one packet to the decoder, and the
\* packet is not one the meter transmitted: it begins at a 0xF2 inside a
\* transmitted packet
GarbageHanded == ncalls' = ncalls + 1 /\ arg' \notin ResyncFrames

\* C15 (as stated): a 19-byte packet assembled from a 0xF2 at a false
\* position is rejected by the checksum test: the Reading and is_new_value
\* are left as they were.
C15_GarbageRejected ==
    [][GarbageHanded =>
         /\ ReadingOf(self') = ReadingOf(self)
         /\ self'.is_new_value = self.is_new_value
         /\ ~raised']_vars

\* C15 (amended): such a packet is rejected exactly when its byte 18 differs
\* from the XOR of its bytes 0..17, which is the only test made.  When the
\* XOR matches (as it does for the 19 bytes that follow a 0xF2 in byte 1 of a
\* packet, up to and including the 0xF2 that starts the next packet) the
\* packet is decoded like a genuine one: its Reading is published, or
\* IndexError is raised when its mode or range index is out of range.
C15_GarbageRejectedIffChecksumFails ==
    [][GarbageHanded =>
         IF ~ChecksumOK(arg')
         THEN /\ ReadingOf(self') = ReadingOf(self)
              /\ self'.is_new_value = self.is_new_value
              /\ ~raised'
         ELSE IF InRange(arg')
              THEN /\ ReadingOf(self') = ReadingOf(parse_121GW_data(self, arg').obj)
                   /\ self'.is_new_value
                   /\ ~raised'
              ELSE raised']_vars

\* C15 witness: the subscription began at byte 1 (0xF2) of FrameShift, a
\* Frequency packet; the 18 bytes from there and the 0xF2 of the next packet
\* passed the checksum test and were published as 1280e-6 "Voltage DC (mV)".
C15_Witness ==
    /\ ncalls = 1
    /\ arg = SubSeq(FrameShift, 2, PacketLen) \o <<StartByte>>
    /\ arg \notin ResyncFrames
    /\ ChecksumOK(arg)
    /\ self.is_new_value
    /\ self.main_mode_long = "Voltage DC (mV)"
    /\ self.main_value_float = Float(1280, -6)

(***************************************************************************)
(* Further properties of SpecStream.                                       *)
(***************************************************************************)
\* C16: once the byte that brings the buffer to 19 bytes has been handled,
\* the buffer is empty and is_waiting_for_start is true, whatever the decoder
\* did with the packet: no call ends with 19 bytes in the buffer, and from
\* every state with 18 bytes in the buffer every next byte leaves the
\* reassembler scanning for a start command.
C16_ClearedAfterNineteenth ==
    /\ Len(self.buffer) < PacketLen
    /\ (~self.is_waiting_for_start /\ Len(self.buffer) = PacketLen - 1)
       => \A byte \in 0..255 : Idle(notification_byte(self, byte).obj)

\* What holds instead: the reassembler is left scanning for a start command
\* unless the decoder raised IndexError, and then the 19 bytes stay in the
\* buffer.
Handler_ClearedUnlessRaised ==
    (~self.is_waiting_for_start /\ Len(self.buffer) = PacketLen - 1)
       => \A byte \in 0..255 :
             LET r == notification_byte(self, byte) IN
             IF r.raised
             THEN r.obj.buffer = Append(self.buffer, byte) /\ ~r.obj.is_waiting_for_start
             ELSE Idle(r.obj)

\* C20: a complete 19-byte packet whose byte 18 differs from the XOR of its
\* bytes 0..17 is dropped: main_mode_short, main_mode_long, main_range,
\* main_value_float and is_new_value are left as they were and
\* notification_handler raises nothing.
C20_BadChecksumDropped ==
    [][(ncalls' = ncalls + 1 /\ ~ChecksumOK(arg')) =>
         /\ ReadingOf(self') = ReadingOf(self)
         /\ self'.is_new_value = self.is_new_value
         /\ ~raised']_vars

\* C20 witness: FrameMarker was decoded, then FrameBadSum was handed to the
\* decoder; the Reading is still FrameMarker's.
C20_Witness ==
    /\ ncalls = 2
    /\ arg = FrameBadSum /\ ~ChecksumOK(arg)
    /\ ~raised
    /\ self.is_new_value
    /\ self.main_mode_long = "Frequency (Hz)"
    /\ self.main_value_float = Float(61957, 0)
    /\ Idle(self)

\* C21: while is_waiting_for_start is true, a byte other than 0xF2 changes
\* nothing (buffer, is_waiting_for_start and the Reading stay as they are)
\* and 0xF2 becomes the only element of the buffer and clears
\* is_waiting_for_start; neither hands a packet to the decoder.
C21_ScanForStartMarker ==
    self.is_waiting_for_start =>
        \A byte \in 0..255 :
            LET r == notification_byte(self, byte) IN
            /\ r.handed = <<>> /\ ~r.raised
            /\ IF byte = 242
               THEN r.obj = [self EXCEPT !.buffer = <<242>>,
                                         !.is_waiting_for_start = FALSE]
               ELSE r.obj = self

\* C21 witness: the stray byte 7 was discarded and the 0xF2 that followed it
\* is the only byte in the buffer; the decoder has not been called.
C21_Witness ==
    /\ fed = StrayByte \o FrameVDC
    /\ Len(wire) = PacketLen - 1
    /\ self.buffer = <<242>>
    /\ ~self.is_waiting_for_start
    /\ ncalls = 0

(***************************************************************************)
(* SpecStall: notifications of any size arrive, or stop arriving, while    *)
(* the user's thread calls `reading`.  A notification is handled in one    *)
(* step here: the reassembler state is touched by the handler only.        *)
(***************************************************************************)
StallItems == {FrameVDC, Trunc10}

InitStall == InitDecode

\* the meter sends one item and then falls silent
TransmitOnce(item) == sent = 0 /\ Transmit(item)

NextStall ==
    \/ \E item \in StallItems : TransmitOnce(item)
    \/ \E n \in 1..(MaxSent * PacketLen) : Notify(n)
    \/ ReaderStep
    \/ Tick

SpecStall == InitStall /\ [][NextStall]_vars

\* the reassembler is accumulating a packet that is not complete yet
Accumulating(o) == ~o.is_waiting_for_start /\ Len(o.buffer) < PacketLen

\* C22: while fewer than 19 bytes have accumulated after a start command,
\* every step that does not complete a packet (the end of a notification,
\* any step of a `reading` call including its timeout, the passing of time)
\* leaves the reassembler accumulating, with the bytes it had still at the
\* front of the buffer.
C22_StaysAccumulating ==
    [][(Accumulating(self) /\ ncalls' = ncalls) =>
         /\ ~self'.is_waiting_for_start
         /\ Len(self'.buffer) >= Len(self.buffer)
         /\ SubSeq(self'.buffer, 1, Len(self.buffer)) = self.buffer]_vars

\* C22 witness: 10 bytes of a packet arrived and no more; a `reading` call
\* made afterwards timed out and the 10 bytes are still in the buffer.
C22_Witness ==
    /\ self.buffer = Trunc10
    /\ ~self.is_waiting_for_start
    /\ wire = <<>> /\ sent = 1
    /\ rpc = "idle" /\ result.kind = "timeout"

(***************************************************************************)
(* Order of decoding (SpecStream).                                         *)
(***************************************************************************)
\* a 19-byte packet that the decoder accepts
AcceptedFrame(f) == ChecksumOK(f) /\ InRange(f)

\* the Reading after the accepted packets among `packets` were published one
\* after the other, starting from the Reading of o
RECURSIVE PublishAccepted(_, _)
PublishAccepted(o, packets) ==
    IF packets = <<>> THEN o
    ELSE PublishAccepted(
            IF AcceptedFrame(Head(packets))
            THEN parse_121GW_data(o, Head(packets)).obj ELSE o,
            Tail(packets))

\* a step that is one call of notification_handler, and the bytes it was given
IsNotification == Len(wire') < Len(wire)

Chunk == SubSeq(wire, 1, Len(wire) - Len(wire'))

\* C23: over every notification, the Reading changes as if the accepted
\* packets among those completed in it were published in the order of their
\* closing bytes, and nothing else touched it: afterwards the Reading is that
\* of the most recently completed accepted packet.
C23_ReadingIsLastAccepted ==
    [][IsNotification =>
         ReadingOf(self')
           = ReadingOf(PublishAccepted(self, notification_handler(self, Chunk).handed))]_vars

\* This holds over the notifications in which the decoder does not raise.
Handler_ReadingIsLastAcceptedUnlessRaised ==
    [][(IsNotification /\ ~raised') =>
         ReadingOf(self')
           = ReadingOf(PublishAccepted(self, notification_handler(self, Chunk).handed))]_vars

(***************************************************************************)
(* SpecClose: an instance is constructed; the program calls close() up to  *)
(* MaxCloses times, the instance is collected (__del__) once, and the      *)
(* meter may drop the connection at any moment.                            *)
(***************************************************************************)
InitClose == InitDecode

\* meter.close()
Close ==
    /\ made.kind = "instance"
    /\ ~life.deleted
    /\ life.closes < MaxCloses
    /\ device' = close(device)
    /\ life' = [life EXCEPT !.closes = @ + 1]
    /\ UNCHANGED <<env, made, decodeVars, streamVars, threadVars, dmmVars>>

\* __del__ (lines 192-194): close() once more, then the instance is gone
Del ==
    /\ made.kind = "instance"
    /\ ~life.deleted
    /\ device' = close(device)
    /\ life' = [life EXCEPT !.deleted = TRUE]
    /\ UNCHANGED <<env, made, decodeVars, streamVars, threadVars, dmmVars>>

\* the meter goes out of range or is switched off
Drop ==
    /\ made.kind = "instance"
    /\ device.is_connected
    /\ device' = [device EXCEPT !.is_connected = FALSE]
    /\ UNCHANGED <<env, made, life, decodeVars, streamVars, threadVars, dmmVars>>

NextClose ==
    \/ \E e \in Environments : Construct(e)
    \/ Close
    \/ Del
    \/ Drop

SpecClose == InitClose /\ [][NextClose]_vars

\* a step that is one run of close(), called directly or from __del__
CloseRuns == life' # life

\* C24: a run of close() on a connected device calls unsubscribe and then
\* disconnect, once each; on a device that is not connected it calls
\* neither; so over all the close() calls and the one from __del__ the
\* device is unsubscribed and disconnected at most once.
C24_TeardownOnce ==
    [][CloseRuns =>
         /\ IF device.is_connected
            THEN /\ device'.log = device.log \o <<"unsubscribe", "disconnect">>
                 /\ ~device'.is_connected
            ELSE device' = device
         /\ device'.log \in {<<>>, <<"unsubscribe", "disconnect">>}]_vars

\* C24 witness: close() was called twice and __del__ has run; the device was
\* unsubscribed and disconnected once.
C24_Witness ==
    /\ life.closes = 2 /\ life.deleted
    /\ device.log = <<"unsubscribe", "disconnect">>
    /\ ~device.is_connected

(***************************************************************************)
(* The reassembler between two bytes (SpecStream: the notifications end at *)
(* every byte boundary).                                                   *)
(***************************************************************************)
\* C25: is_waiting_for_start is true exactly when the buffer is empty, the
\* buffer holds at most 18 bytes, and a non-empty buffer begins with 0xF2.
C25_ReassemblerInvariant ==
    /\ self.is_waiting_for_start <=> (self.buffer = <<>>)
    /\ Len(self.buffer) <= PacketLen - 1
    /\ self.buffer # <<>> => self.buffer[1] = StartByte

\* What holds: the same with at most 19 bytes, the 19 being there only after
\* the decoder raised IndexError.
Reassembler_InvariantUnlessRaised ==
    /\ self.is_waiting_for_start <=> (self.buffer = <<>>)
    /\ Len(self.buffer) <= PacketLen
    /\ Len(self.buffer) = PacketLen => (raised /\ ~InRange(self.buffer))
    /\ self.buffer # <<>> => self.buffer[1] = StartByte

\* C27: when all the bytes sent have been delivered, in whatever chunks, the
\* reassembler state and the Reading are those that one call with all the
\* bytes produces from the same starting state.
C27_ChunkingIrrelevant ==
    (wire = <<>> /\ fed # <<>>) =>
        LET one == notification_handler(base, fed).obj IN
        /\ self.buffer = one.buffer
        /\ self.is_waiting_for_start = one.is_waiting_for_start
        /\ ReadingOf(self) = ReadingOf(one)
        /\ self.is_new_value = one.is_new_value

(***************************************************************************)
(* A decode that fails (SpecDecode).                                       *)
(***************************************************************************)
\* C26: a call of parse_121GW_data that raises IndexError leaves
\* main_mode_short, main_mode_long, main_range and main_value_float as they
\* were.
C26_FailedDecodeKeepsReading ==
    [][(DecodeStep /\ raised') => ReadingOf(self') = ReadingOf(self)]_vars

\* What holds: a mode index out of range leaves the Reading as it was; a
\* range index out of range leaves main_range and main_value_float but has
\* replaced main_mode_short and main_mode_long by those of the packet's mode.
Parse_FailedDecodeKeepsValueOnly ==
    [][(DecodeStep /\ raised') =>
         /\ self'.main_range = self.main_range
         /\ self'.main_value_float = self.main_value_float
         /\ self'.is_new_value = self.is_new_value
         /\ IF ModeIndexError(arg')
            THEN ReadingOf(self') = ReadingOf(self)
            ELSE /\ self'.main_mode_short = MODE_RANGE_LIST[main_mode_idx(arg') + 1][1]
                 /\ self'.main_mode_long = MODE_RANGE_LIST[main_mode_idx(arg') + 1][2]]_vars

(***************************************************************************)
(* SpecRecover: the subscription has seen stray bytes or a packet that was *)
(* cut; from then on the meter sends whole packets back to back, none of   *)
(* which has 0xF2 among its bytes 1..18.  Notifications carry any number   *)
(* of the pending bytes.                                                   *)
(***************************************************************************)
Prefixes == {<<>>, StrayByte, <<StartByte>>, Trunc10, SubSeq(FrameZero, 1, 18)}

CleanFrames == {FrameVDC, FrameZero}

InitRecover ==
    /\ self = InitSelf
    /\ arg = <<>>
    /\ ncalls = 0
    /\ raised = FALSE
    /\ wire \in Prefixes
    /\ sent = 0
    /\ base = InitSelf
    /\ fed = wire
    /\ InitThreads
    /\ InitConn

NextRecover ==
    \/ \E item \in CleanFrames : Transmit(item)
    \/ \E n \in 1..(MaxSent * PacketLen) : Notify(n)

SpecRecover == InitRecover /\ [][NextRecover]_vars

\* the packet the meter sent last
LastFrame == SubSeq(fed, Len(fed) - PacketLen + 1, Len(fed))

\* the instance has just decoded the packet f and scans for the next
InStep(o, f) ==
    /\ Idle(o)
    /\ o.is_new_value
    /\ ReadingOf(o) = ReadingOf(parse_121GW_data(InitSelf, f).obj)

\* C28: once two or more whole packets have followed the prefix and all
\* bytes have been delivered, the reassembler is in step with the stream: the
\* packet decoded last is the packet sent last.
C28_ResyncWithinTwoFrames ==
    (wire = <<>> /\ sent >= 2) => (arg = LastFrame /\ InStep(self, LastFrame))

\* notification_handler called once per byte of data[lo] .. data[hi]; an
\* IndexError ends only the call it is raised in.
RECURSIVE ByteWise(_, _, _, _)
ByteWise(o, bytes, lo, hi) ==
    IF lo > hi THEN o
    ELSE IF lo = hi THEN notification_byte(o, bytes[lo]).obj
    ELSE LET mid == (lo + hi) \div 2
             o1 == ByteWise(o, bytes, lo, mid)
         IN  \* the first half is evaluated before the second is entered
             IF o1.is_waiting_for_start
             THEN ByteWise(o1, bytes, mid + 1, hi)
             ELSE ByteWise(o1, bytes, mid + 1, hi)

\* What holds: delivered one byte per notification, the same streams leave
\* the reassembler in step after two packets.
Recover_ByteWiseResyncs ==
    (ncalls = 0 /\ wire = fed /\ sent >= 2)
        => InStep(ByteWise(self, wire, 1, Len(wire)), LastFrame)

(***************************************************************************)
(* The attribute main_value_float, which __init__ does not create          *)
(* (SpecRW).                                                               *)
(***************************************************************************)
\* C29: whenever is_new_value is true, a decode has run to line 256 and
\* main_value_float has been assigned; `reading` reaches line 165 only with
\* main_value_float assigned and never fails with AttributeError.
C29_NewValueIsAssigned ==
    /\ self.is_new_value =>
          (self.main_value_float # Unassigned /\ hist.done >= 1)
    /\ rpc = "r165" => self.main_value_float # Unassigned
    /\ result.kind # "AttributeError"

\* C29 witness: `reading` was entered on an instance whose main_value_float
\* had never been assigned, and returned the value of the packet decoded
\* during the call.
C29_Witness ==
    /\ Returned /\ result.kind = "value"
    /\ hist.entry_value = Unassigned
    /\ hist.entry_done = 0
    /\ result.value = Float(12345, -1)
    /\ self.is_new_value

(***************************************************************************)
(* SpecScan: an Agilent34970A is constructed on an instrument in any       *)
(* state; then channels are read and queried, scan_list is assigned and    *)
(* reset() is called, in any order.                                        *)
(***************************************************************************)
InitScan == InitDecode

\* dmm = Agilent34970A(adapter); the instrument's scan list is whatever it
\* was left at
ConstructDmm(scan0) ==
    /\ ~dmm.made
    /\ dmm' = Agilent34970A_init(scan0)
    /\ UNCHANGED <<decodeVars, streamVars, threadVars, connVars>>

\* dmm.ch_<c>.reading (lines 54-57): the command ":READ?" through channel c
ChannelReading(c) ==
    /\ dmm.made
    /\ Len(dmm.out) < MaxWrites
    /\ dmm' = channel_write(dmm, c, "READ?")
    /\ UNCHANGED <<decodeVars, streamVars, threadVars, connVars>>

\* dmm.ch_<c>.mode (line 116): the command ":FUNC? (@c)" through channel c
ChannelMode(c) ==
    /\ dmm.made
    /\ Len(dmm.out) < MaxWrites
    /\ dmm' = channel_write(dmm, c, "FUNC?")
    /\ UNCHANGED <<decodeVars, streamVars, threadVars, connVars>>

\* dmm.scan_list = list
SetScanList(list) ==
    /\ dmm.made
    /\ Len(dmm.out) < MaxWrites
    /\ dmm' = set_scan_list(dmm, list)
    /\ UNCHANGED <<decodeVars, streamVars, threadVars, connVars>>

\* dmm.reset()
Reset ==
    /\ dmm.made
    /\ Len(dmm.out) < MaxWrites
    /\ dmm' = reset(dmm)
    /\ UNCHANGED <<decodeVars, streamVars, threadVars, connVars>>

NextScan ==
    \/ \E scan0 \in ScanLists : ConstructDmm(scan0)
    \/ \E c \in Channels : ChannelReading(c)
    \/ \E c \in Channels : ChannelMode(c)
    \/ \E list \in ScanLists : SetScanList(list)
    \/ Reset

SpecScan == InitScan /\ [][NextScan]_vars

\* the command written last
LastCommand == dmm.out[Len(dmm.out)]

\* C30: when READ? has just been written through channel c, the scan list
\* in effect on the instrument is exactly channel c.
C30_ReadsSelectedChannel ==
    (dmm.out # <<>> /\ LastCommand.cmd = "READ?")
        => dmm.scan = {LastCommand.via}

\* What holds: as long as every command so far was written through a
\* channel object, READ? through channel c finds the scan list at c.
Scan_ReadsSelectedChannelWithoutInstrumentWrites ==
    (/\ dmm.out # <<>>
     /\ LastCommand.cmd = "READ?"
     /\ \A i \in 1..Len(dmm.out) : dmm.out[i].via # NoChannel)
        => (dmm.scan = {LastCommand.via} /\ dmm.working_ch = LastCommand.via)

====
